---- MODULE Spec2Model ----
(***************************************************************************)
(* pyuploadcare/api.py: the two request functions rest_request and         *)
(* uploading_request, with the request signing that rest_request does.     *)
(*                                                                         *)
(* Text is a sequence of tokens.  A token is one delimiter character       *)
(* (":", "/", "?", "#", ".", the double quote, ";", " ") or a name, which  *)
(* stands for a non-empty run of letters and digits that holds no          *)
(* delimiter ("files", "limit=10", "w1").                                  *)
(***************************************************************************)
EXTENDS Integers, Sequences, FiniteSets, TLC

\* ------------------------------------------------------------------ text

Names == {"https", "api", "upload", "evil", "files", "v1", "limit=10", "top",
          "w1", "w2", "w3", "199"}

RECURSIVE Find(_, _, _)
\* str.find: the first index from i on at which token c stands in s, 0 when none.
Find(s, c, i) ==
    IF i > Len(s) THEN 0
    ELSE IF s[i] = c THEN i
    ELSE Find(s, c, i + 1)

RECURSIVE RFind(_, _, _)
\* The last index up to i at which token c stands in s, 0 when none.
RFind(s, c, i) ==
    IF i < 1 THEN 0
    ELSE IF s[i] = c THEN i
    ELSE RFind(s, c, i - 1)

\* s[i:] and s[:i] of Python, on 1-based positions: Drop removes the first n.
Drop(s, n) == IF n >= Len(s) THEN <<>> ELSE SubSeq(s, n + 1, Len(s))
Take(s, n) == IF n <= 0 THEN <<>> ELSE SubSeq(s, 1, IF n > Len(s) THEN Len(s) ELSE n)

\* str.startswith
startswith(s, p) == Len(s) >= Len(p) /\ Take(s, Len(p)) = p

RECURSIVE split(_, _)
\* str.split(sep) for a one-token separator: the list of the pieces between
\* the separators, empty pieces kept.
split(s, sep) ==
    LET i == Find(s, sep, 1)
    IN  IF i = 0 THEN <<s>>
        ELSE <<Take(s, i - 1)>> \o split(Drop(s, i), sep)

RECURSIVE join(_, _)
\* sep.join(parts)
join(sep, parts) ==
    IF parts = <<>> THEN <<>>
    ELSE IF Len(parts) = 1 THEN parts[1]
    ELSE parts[1] \o sep \o join(sep, Tail(parts))

RECURSIVE FindSub(_, _, _)
\* str.find for a separator of several tokens.
FindSub(s, sep, i) ==
    IF i + Len(sep) - 1 > Len(s) THEN 0
    ELSE IF SubSeq(s, i, i + Len(sep) - 1) = sep THEN i
    ELSE FindSub(s, sep, i + 1)

RECURSIVE split_str(_, _)
\* str.split(sep) for a separator of several tokens, scanning left to right.
split_str(s, sep) ==
    LET i == FindSub(s, sep, 1)
    IN  IF i = 0 THEN <<s>>
        ELSE <<Take(s, i - 1)>> \o split_str(Drop(s, i + Len(sep) - 1), sep)

\* ------------------------------------------------------------------- URLs

\* urllib's scheme_chars: letters, digits and "+-."; the first must be a letter.
scheme_chars == Names \cup {"."}

\* urllib's uses_relative and uses_netloc both hold http and https.
uses_relative == {"https"}
uses_netloc == {"https"}

\* End of the network location: the first of "/", "?", "#" from position 3 on.
splitnetloc(url) ==
    LET cands == {Find(url, c, 3) : c \in {"/", "?", "#"}} \ {0}
    IN  IF cands = {} THEN Len(url) + 1
        ELSE CHOOSE i \in cands : \A j \in cands : i <= j

\* urlsplit, first step: a scheme is what stands before the first ":" when
\* it starts with a letter and holds scheme characters only.
has_scheme(url, i) ==
    /\ i > 1
    /\ url[1] \in Names
    /\ \A k \in 1..(i - 1) : url[k] \in scheme_chars

split_scheme(url, default, i) ==
    IF has_scheme(url, i)
    THEN [scheme |-> Take(url, i - 1), rest |-> Drop(url, i)]
    ELSE [scheme |-> default, rest |-> url]

\* urlsplit, second step: "//" opens the network location.
split_netloc(url, e) ==
    IF startswith(url, <<"/", "/">>)
    THEN [netloc |-> SubSeq(url, 3, e - 1), rest |-> Drop(url, e - 1)]
    ELSE [netloc |-> <<>>, rest |-> url]

\* url.split(c, 1) when c is in url: what stands before the first c, and after.
split_once(url, i) ==
    IF i > 0
    THEN [before |-> Take(url, i - 1), after |-> Drop(url, i)]
    ELSE [before |-> url, after |-> <<>>]

split_query(scheme, netloc, f) ==
    [scheme |-> scheme, netloc |-> netloc,
     path |-> split_once(f.before, Find(f.before, "?", 1)).before,
     query |-> split_once(f.before, Find(f.before, "?", 1)).after,
     fragment |-> f.after]

split_fragment(scheme, n) ==
    split_query(scheme, n.netloc, split_once(n.rest, Find(n.rest, "#", 1)))

split_rest(s) ==
    split_fragment(s.scheme, split_netloc(s.rest, splitnetloc(s.rest)))

\* urllib.parse.urlsplit(url, scheme=default)
urlsplit_default(url, default) ==
    split_rest(split_scheme(url, default, Find(url, ":", 1)))

urlsplit(url) == urlsplit_default(url, <<>>)

\* urlunsplit: the network location goes before the path, made absolute.
unsplit_netloc(p) ==
    IF p.netloc # <<>>
       \/ (p.scheme # <<>> /\ p.scheme[1] \in uses_netloc
           /\ ~startswith(p.path, <<"/", "/">>))
    THEN <<"/", "/">> \o p.netloc
         \o (IF p.path # <<>> /\ p.path[1] # "/" THEN <<"/">> ELSE <<>>)
         \o p.path
    ELSE p.path

\* urllib.parse.urlunsplit
urlunsplit(p) ==
    (IF p.scheme # <<>> THEN p.scheme \o <<":">> ELSE <<>>)
    \o unsplit_netloc(p)
    \o (IF p.query # <<>> THEN <<"?">> \o p.query ELSE <<>>)
    \o (IF p.fragment # <<>> THEN <<"#">> \o p.fragment ELSE <<>>)

RECURSIVE filter_empty(_)
\* filter(None, segments): the non-empty segments.
filter_empty(segs) ==
    IF segs = <<>> THEN <<>>
    ELSE (IF Head(segs) = <<>> THEN <<>> ELSE <<Head(segs)>>) \o filter_empty(Tail(segs))

RECURSIVE remove_dots(_, _)
\* The loop of urljoin over the segments: ".." pops, "." is skipped.
remove_dots(segs, resolved) ==
    IF segs = <<>> THEN resolved
    ELSE IF Head(segs) = <<".", ".">>
    THEN remove_dots(Tail(segs), Take(resolved, Len(resolved) - 1))
    ELSE IF Head(segs) = <<".">>
    THEN remove_dots(Tail(segs), resolved)
    ELSE remove_dots(Tail(segs), Append(resolved, Head(segs)))

\* base_parts: the segments of the base path without the last one, unless
\* that is empty.
base_parts(bp) == IF bp[Len(bp)] # <<>> THEN Take(bp, Len(bp) - 1) ELSE bp

\* segments[1:-1] = filter(None, segments[1:-1])
filter_middle(raw) ==
    IF Len(raw) < 2 THEN raw
    ELSE <<raw[1]>> \o filter_empty(SubSeq(raw, 2, Len(raw) - 1)) \o <<raw[Len(raw)]>>

\* The segments urljoin resolves, for a non-empty path.
segments(bpath, path) ==
    IF path[1] = "/" THEN split(path, "/")
    ELSE filter_middle(base_parts(split(bpath, "/")) \o split(path, "/"))

\* The resolved segments: a last segment "." or ".." leaves an empty one.
resolved_path(segs) ==
    IF segs[Len(segs)] \in {<<".">>, <<".", ".">>}
    THEN Append(remove_dots(segs, <<>>), <<>>)
    ELSE remove_dots(segs, <<>>)

\* '/'.join(resolved_path) or '/'
joined_path(joined) == IF joined = <<>> THEN <<"/">> ELSE joined

\* urljoin, once both are split.
urljoin_parts(url, b, u) ==
    IF u.scheme # b.scheme \/ u.scheme = <<>> \/ u.scheme[1] \notin uses_relative
    THEN url
    ELSE IF u.scheme[1] \in uses_netloc /\ u.netloc # <<>>
    THEN urlunsplit(u)
    ELSE IF u.path = <<>>
    THEN urlunsplit([u EXCEPT !.netloc = b.netloc, !.path = b.path,
                              !.query = IF u.query = <<>> THEN b.query ELSE u.query])
    ELSE urlunsplit([u EXCEPT
            !.netloc = b.netloc,
            !.path = joined_path(join(<<"/">>, resolved_path(segments(b.path, u.path))))])

urljoin_base(url, b) == urljoin_parts(url, b, urlsplit_default(url, b.scheme))

\* urllib.parse.urljoin(base, url)
urljoin(base, url) ==
    IF base = <<>> THEN url
    ELSE IF url = <<>> THEN base
    ELSE urljoin_base(url, urlsplit(base))

\* ------------------------------------------------------- Python values

\* None, a str, and a dict as the list of its (key, value) pairs in insertion
\* order.
None == [t |-> "None"]
Str(s) == [t |-> "str", s |-> s]
Dict(items) == [t |-> "dict", items |-> items]

RECURSIVE has_key(_, _)
has_key(items, k) ==
    items # <<>> /\ (Head(items)[1] = k \/ has_key(Tail(items), k))

RECURSIVE get_item(_, _)
\* d[k] for a key the dict holds.
get_item(items, k) ==
    IF Head(items)[1] = k THEN Head(items)[2] ELSE get_item(Tail(items), k)

\* d[k] = v: the value is replaced where the key stands, or the pair is added
\* at the end.
set_item(items, k, v) ==
    IF has_key(items, k)
    THEN [i \in 1..Len(items) |-> IF items[i][1] = k THEN <<k, v>> ELSE items[i]]
    ELSE Append(items, <<k, v>>)

keys(items) == {items[i][1] : i \in 1..Len(items)}

RECURSIVE dumps_items(_)
dumps_items(items) ==
    IF items = <<>> THEN <<>>
    ELSE <<"\"", Head(items)[1], "\"", ":", " ", "\"", Head(items)[2], "\"">>
         \o (IF Len(items) > 1 THEN <<",", " ">> ELSE <<>>)
         \o dumps_items(Tail(items))

\* json.dumps of a dict of strings: {"k1": "v"}
json_dumps(d) == <<"{">> \o dumps_items(d.items) \o <<"}">>

\* json.loads on the response bodies of the model: the parsed value, or the
\* message of the ValueError.
json_loads(body) ==
    CASE body = "{\"uuid\": \"abc\"}" ->
            [ok |-> TRUE, value |-> Dict(<<<<"uuid", "abc">>>>)]
      [] body = "null" -> [ok |-> TRUE, value |-> None]
      [] body = "{}" -> [ok |-> TRUE, value |-> Dict(<<>>)]
      [] body = "" ->
            [ok |-> FALSE, error |-> "Expecting value: line 1 column 1 (char 0)"]
      [] OTHER ->
            [ok |-> FALSE, error |-> "Expecting value: line 1 column 1 (char 0)"]

\* hashlib.md5(content).hexdigest() on the request bodies of the model.
md5_hexdigest(content) ==
    CASE content = <<>> -> "d41d8cd98f00b204e9800998ecf8427e"
      [] content = <<"{", "}">> -> "99914b932bd37a50b983c5e7c90ae93b"
      [] content = <<"{", "\"", "k1", "\"", ":", " ", "\"", "v", "\"", "}">> ->
            "1fa979482c34abddbb39720301829e37"

RECURSIVE rstrip_nul(_)
rstrip_nul(key) ==
    IF key # <<>> /\ key[Len(key)] = "NUL" THEN rstrip_nul(Take(key, Len(key) - 1))
    ELSE key

\* hmac.new(key, msg, hashlib.sha1).hexdigest(), with SHA-1 taken as free of
\* collisions: the digest is determined by, and determines, the message and
\* the key as HMAC uses it, which is the key padded with zero bytes to the
\* block size (trailing zero bytes of a short key do not count).
hmac_sha1_hexdigest(key, msg) == [hmac_key |-> rstrip_nul(key), msg |-> msg]

\* email.utils.formatdate(usegmt=True) at instant t, counted in half seconds:
\* the date has a resolution of one second.
formatdate(t) == <<"Thu, 01 Jan 1970 00:00:0" \o ToString(t \div 2) \o " GMT">>


\* ------------------------------------------------------------- bounds

\* The clock runs from 0 to MaxClock half seconds.
MaxClock == 2

\* ------------------------------------------------------------- inputs

Q == "\""

\* conf.api_base, conf.upload_base and the other settings api.py reads.
ApiBases == {<<"https", ":", "/", "/", "api", "/">>,
             <<"https", ":", "/", "/", "api", "/", "v1", "/">>}
Secrets == {None, Str(<<>>), Str(<<"k">>), Str(<<"k", "NUL">>)}
Confs == [pub_key : {"demopublickey"},
          secret : {None, Str(<<"k">>)},
          api_base : ApiBases,
          upload_base : {<<"https", ":", "/", "/", "upload", "/">>},
          verify_api_ssl : {TRUE},
          verify_upload_ssl : {TRUE}]

Verbs == {"GET", "POST"}

RelativePaths == {<<>>,
                  <<"files", "/">>,
                  <<"files", "/", "?", "limit=10">>,
                  <<"files", "/", "?">>,
                  <<"files", "/", "#", "top">>,
                  <<".", "/", "files", "/">>,
                  <<".", ".", "/", "files", "/">>,
                  <<"?", "limit=10">>}
AbsoluteUrls == {<<"https", ":", "/", "/", "evil", "/", "files", "/">>,
                 <<"https", ":", "/", "/", "evil">>}
SlashPaths == {<<"/", "files", "/">>, <<"/", "/", "evil", "/", "files", "/">>}
Paths == RelativePaths \cup AbsoluteUrls \cup SlashPaths

RestData == {None, Dict(<<>>), Dict(<<<<"k1", "v">>>>)}
UploadData == RestData \cup {Dict(<<<<"pub_key", "old">>, <<"k1", "v">>>>)}
UploadFiles == {None, Dict(<<<<"file", "photo.jpg">>>>)}

StatusCodes == {200, 201, 204, 400, 403, 404, 500}
Bodies == {"{\"uuid\": \"abc\"}", "null", "", "<html>"}
NoHeaders == [k \in {} |-> <<>>]
WarningValues == {<<"199", " ", "w1">>,
                  <<Q, Q>>,
                  <<Q, "w1", Q>>,
                  <<Q, "w1", ";", " ", "w2", Q>>,
                  <<Q, "w1", ";", "w2", Q>>,
                  <<"199", " ", Q, "w1", Q, " ", Q, "w2", ";", " ", "w3", Q>>}
ResponseHeaders == {NoHeaders} \cup {[warning |-> w] : w \in WarningValues}
Responses == [status_code : StatusCodes, content : Bodies, headers : ResponseHeaders]
\* uploading_request reads the status and the body of a response only.
UploadResponses == [status_code : StatusCodes, content : Bodies, headers : {NoHeaders}]
\* exc.args[0] of the requests.RequestException
TransportErrors == {"Connection refused", "Name or service not known",
                    "Read timed out", "certificate verify failed"}

\* -------------------------------------------------------------- state

VARIABLES
    conf,          \* the conf module
    now,           \* the clock, in half seconds
    pc,            \* idle, rest_wait, rest_status, upload_wait, done
    args,          \* the arguments of the call in progress, as passed
    caller_data,   \* the caller's data object, as it is now
    caller_files,  \* the caller's files object, as it is now
    locals,        \* url, path, content, date, sign_string, sign, headers
    sent,          \* the calls of requests.request made by this call, in order
    response,      \* the response received, or None
    log,           \* the records this call gave the logger, in order
    outcome,       \* pending, or what the call returned or raised
    caught,        \* the requests.RequestException caught (its args), or None
    sign_inputs,   \* two requests to sign side by side
    sign_outputs   \* what rest_request makes of each

vars == <<conf, now, pc, args, caller_data, caller_files, locals, sent,
          response, log, outcome, caught, sign_inputs, sign_outputs>>

Pending == [kind |-> "pending"]
Return(v) == [kind |-> "return", value |-> v]
Raise(e, a) == [kind |-> "raise", exc |-> e, arg |-> a]

\* --------------------------------------------------------- rest_request

\* path_rejected with the assertion off.
path_rejected_never(path) == FALSE

\* assert not path.startswith('/'), path
path_rejected(path) == startswith(path, <<"/">>)

\* signed_path with the query left out.
signed_path_without_query(url_parts) == url_parts.path

\* The path that is signed: url_parts.path, with the query when there is one.
signed_path(url_parts) ==
    IF url_parts.query # <<>>
    THEN url_parts.path \o <<"?">> \o url_parts.query
    ELSE url_parts.path

\* conf.secret.encode('utf-8'), or bytes() when conf.secret has no encode
\* (None); the model's secrets are ASCII, which UTF-8 leaves byte for byte.
secret_as_bytes(cnf) == IF cnf.secret = None THEN <<>> ELSE cnf.secret.s

\* sign_string with the verb left out.
sign_string_without_verb(verb, content_md5, content_type, date, path) ==
    join(<<"\n">>, <<<<content_md5>>, <<content_type>>, date, path>>)

\* '\n'.join([verb, content_md5, content_type, date, path])
sign_string(verb, content_md5, content_type, date, path) ==
    join(<<"\n">>, <<<<verb>>, <<content_md5>>, <<content_type>>, date, path>>)

\* rest_request up to the call of requests.request: its locals.  Of the
\* headers, Content-Length, Accept and User-Agent are left out: they are
\* not signed and nothing reads them back.
rest_prepare(verb, path, data, cnf, t) ==
    LET url == urljoin(cnf.api_base, path)
        url_parts == urlsplit(url)
        path2 == signed_path(url_parts)
        content == IF data # None THEN json_dumps(data) ELSE <<>>
        content_type == "application/json"
        content_md5 == md5_hexdigest(content)
        date == formatdate(t)
        str == sign_string(verb, content_md5, content_type, date, path2)
        sign == hmac_sha1_hexdigest(secret_as_bytes(cnf), str)
    IN  [url |-> url, path |-> path2, content |-> content,
         content_md5 |-> content_md5, date |-> date, sign_string |-> str,
         sign |-> sign,
         headers |-> [Authorization |-> [pub_key |-> cnf.pub_key, sign |-> sign],
                      Date |-> date,
                      ContentType |-> content_type]]

NoLocals == [url |-> <<>>]
NoCall == [fn |-> "none"]

\* rest_request(verb, path, data), to the point where the request is out.
rest_request_call(verb, path, data) ==
    /\ pc = "idle"
    /\ response' = None
    /\ args' = [fn |-> "rest_request", verb |-> verb, path |-> path,
                data |-> data, files |-> None]
    /\ caller_data' = data
    /\ caller_files' = None
    /\ IF path_rejected(path)
       THEN /\ outcome' = Raise("AssertionError", path)
            /\ pc' = "done"
            /\ locals' = NoLocals
            /\ sent' = <<>>
            /\ log' = <<>>
       ELSE LET l == rest_prepare(verb, path, data, conf, now)
            IN  /\ locals' = l
                /\ log' = <<[level |-> "DEBUG", kind |-> "sent",
                             verb |-> verb, path |-> l.path,
                             headers |-> l.headers, data |-> l.content]>>
                /\ sent' = <<[verb |-> verb, url |-> l.url,
                              allow_redirects |-> TRUE,
                              verify |-> conf.verify_api_ssl,
                              headers |-> l.headers,
                              data |-> l.content, files |-> None]>>
                /\ pc' = "rest_wait"
                /\ outcome' = Pending
    /\ caught' = None
    /\ UNCHANGED <<conf, now, sign_inputs, sign_outputs>>

\* rest_on_transport_error raising the generic error instead.
rest_on_transport_error_as_api_error(exc, reqs) ==
    [pc |-> "done", sent |-> reqs, outcome |-> Raise("APIError", exc.args[1])]

\* rest_on_transport_error sending the request once more before it gives up.
rest_on_transport_error_retry(exc, reqs) ==
    IF Len(reqs) < 2
    THEN [pc |-> "rest_wait", sent |-> Append(reqs, reqs[1]), outcome |-> Pending]
    ELSE [pc |-> "done", sent |-> reqs,
          outcome |-> Raise("APIConnectionError", exc.args[1])]

\* What follows a requests.RequestException in rest_request: the next pc, the
\* requests made and the outcome.
rest_on_transport_error(exc, reqs) ==
    [pc |-> "done", sent |-> reqs,
     outcome |-> Raise("APIConnectionError", exc.args[1])]

\* requests.request raises a RequestException whose args[0] is msg:
\* except requests.RequestException as exc: raise APIConnectionError(exc.args[0])
rest_transport_error(msg) ==
    /\ pc = "rest_wait"
    /\ caught' = [args |-> <<msg>>]
    /\ LET n == rest_on_transport_error(caught', sent)
       IN  /\ pc' = n.pc
           /\ sent' = n.sent
           /\ outcome' = n.outcome
    /\ UNCHANGED <<conf, now, args, caller_data, caller_files, locals, response,
                   log, sign_inputs, sign_outputs>>

\* warning_match with a lazy group, '"(.+?)"': up to the next double quote.
warning_match_lazy(value) ==
    LET i == Find(value, Q, 1)
        j == IF i > 0 THEN Find(value, Q, i + 2) ELSE 0
    IN  IF i > 0 /\ j > i + 1
        THEN [matched |-> TRUE, group1 |-> SubSeq(value, i + 1, j - 1)]
        ELSE [matched |-> FALSE, group1 |-> <<>>]

\* re.search('"(.+)"', value): the text between the first double quote and the
\* last one, when at least one token stands between them.
warning_match(value) ==
    LET i == Find(value, Q, 1)
        j == RFind(value, Q, Len(value))
    IN  IF i > 0 /\ j > i + 1
        THEN [matched |-> TRUE, group1 |-> SubSeq(value, i + 1, j - 1)]
        ELSE [matched |-> FALSE, group1 |-> <<>>]

\* The warnings logged for the response headers, in order.
warnings(headers) ==
    IF "warning" \in DOMAIN headers /\ warning_match(headers.warning).matched
    THEN split_str(warning_match(headers.warning).group1, <<";", " ">>)
    ELSE <<>>

warning_records(headers) ==
    [i \in 1..Len(warnings(headers)) |->
        [level |-> "WARNING", kind |-> "warning",
         text |-> <<"API Warning: ">> \o warnings(headers)[i]]]

\* The response is in: it is logged, and so are its warnings.
rest_receive(resp) ==
    /\ pc = "rest_wait"
    /\ response' = resp
    /\ log' = Append(log, [level |-> "DEBUG", kind |-> "got",
                           status_code |-> resp.status_code,
                           content |-> resp.content])
              \o warning_records(resp.headers)
    /\ pc' = "rest_status"
    /\ UNCHANGED <<conf, now, args, caller_data, caller_files, locals, sent,
                   outcome, sign_inputs, sign_outputs, caught>>

\* rest_outcome without the 403 branch of its own: 403 goes with 400 and 404.
rest_outcome_403_as_invalid(resp) ==
    IF resp.status_code = 200
    THEN IF json_loads(resp.content).ok
         THEN Return(json_loads(resp.content).value)
         ELSE Raise("APIError", json_loads(resp.content).error)
    ELSE IF resp.status_code = 204 THEN Return(None)
    ELSE IF resp.status_code \in {400, 403, 404}
    THEN Raise("InvalidRequestError", resp.content)
    ELSE Raise("APIError", resp.content)

\* rest_outcome without the 204 branch.
rest_outcome_no_204(resp) ==
    IF resp.status_code = 200
    THEN IF json_loads(resp.content).ok
         THEN Return(json_loads(resp.content).value)
         ELSE Raise("APIError", json_loads(resp.content).error)
    ELSE IF resp.status_code = 403 THEN Raise("AuthenticationError", resp.content)
    ELSE IF resp.status_code \in {400, 404}
    THEN Raise("InvalidRequestError", resp.content)
    ELSE Raise("APIError", resp.content)

\* The outcome of rest_request for a response.
rest_outcome(resp) ==
    IF resp.status_code = 200
    THEN IF json_loads(resp.content).ok
         THEN Return(json_loads(resp.content).value)
         ELSE Raise("APIError", json_loads(resp.content).error)
    ELSE IF resp.status_code = 204 THEN Return(None)
    ELSE IF resp.status_code = 403 THEN Raise("AuthenticationError", resp.content)
    ELSE IF resp.status_code \in {400, 404}
    THEN Raise("InvalidRequestError", resp.content)
    ELSE Raise("APIError", resp.content)

\* The status code is interpreted and the call ends.
rest_status ==
    /\ pc = "rest_status"
    /\ outcome' = rest_outcome(response)
    /\ pc' = "done"
    /\ UNCHANGED <<conf, now, args, caller_data, caller_files, locals, sent,
                   response, log, sign_inputs, sign_outputs, caught>>


\* ---------------------------------------------------- uploading_request

\* upload_form with the current field name only.
upload_form_current_only(data, cnf) ==
    set_item(IF data = None THEN <<>> ELSE data.items,
             "UPLOADCARE_PUB_KEY", cnf.pub_key)

\* data, or {} for None, with the public key under both of its names.
upload_form(data, cnf) ==
    set_item(set_item(IF data = None THEN <<>> ELSE data.items,
                      "pub_key", cnf.pub_key),
             "UPLOADCARE_PUB_KEY", cnf.pub_key)

\* uploading_request(verb, path, data, files), to the point where the request
\* is out.  The two assignments act on the caller's dict when one was passed.
uploading_request_call(verb, path, data, files) ==
    /\ pc = "idle"
    /\ response' = None
    /\ args' = [fn |-> "uploading_request", verb |-> verb, path |-> path,
                data |-> data, files |-> files]
    /\ caller_files' = files
    /\ log' = <<>>
    /\ locals' = NoLocals
    /\ IF path_rejected(path)
       THEN /\ outcome' = Raise("AssertionError", path)
            /\ pc' = "done"
            /\ caller_data' = data
            /\ sent' = <<>>
       ELSE LET url == urljoin(conf.upload_base, path)
                form == upload_form(data, conf)
            IN  /\ caller_data' = IF data = None THEN None ELSE Dict(form)
                /\ sent' = <<[verb |-> verb, url |-> url,
                              allow_redirects |-> TRUE,
                              verify |-> conf.verify_upload_ssl,
                              headers |-> NoHeaders,
                              data |-> Dict(form), files |-> files]>>
                /\ pc' = "upload_wait"
                /\ outcome' = Pending
    /\ caught' = None
    /\ UNCHANGED <<conf, now, sign_inputs, sign_outputs>>

\* What follows a requests.RequestException in uploading_request.
upload_on_transport_error(exc, reqs) ==
    [pc |-> "done", sent |-> reqs,
     outcome |-> Raise("APIConnectionError", exc.args[1])]

upload_transport_error(msg) ==
    /\ pc = "upload_wait"
    /\ caught' = [args |-> <<msg>>]
    /\ LET n == upload_on_transport_error(caught', sent)
       IN  /\ pc' = n.pc
           /\ sent' = n.sent
           /\ outcome' = n.outcome
    /\ UNCHANGED <<conf, now, args, caller_data, caller_files, locals, response,
                   log, sign_inputs, sign_outputs>>

\* upload_outcome with the 204 and 403 branches of rest_request.
upload_outcome_like_rest(resp) ==
    IF resp.status_code = 200
    THEN IF json_loads(resp.content).ok
         THEN Return(json_loads(resp.content).value)
         ELSE Raise("APIError", json_loads(resp.content).error)
    ELSE IF resp.status_code = 204 THEN Return(None)
    ELSE IF resp.status_code = 403 THEN Raise("AuthenticationError", resp.content)
    ELSE IF resp.status_code \in {400, 404}
    THEN Raise("InvalidRequestError", resp.content)
    ELSE Raise("APIError", resp.content)

\* The outcome of uploading_request for a response.
upload_outcome(resp) ==
    IF resp.status_code = 200
    THEN IF json_loads(resp.content).ok
         THEN Return(json_loads(resp.content).value)
         ELSE Raise("APIError", json_loads(resp.content).error)
    ELSE IF resp.status_code \in {400, 404}
    THEN Raise("InvalidRequestError", resp.content)
    ELSE Raise("APIError", resp.content)

\* The response is in and the call ends: nothing is logged.
upload_receive(resp) ==
    /\ pc = "upload_wait"
    /\ response' = resp
    /\ outcome' = upload_outcome(resp)
    /\ pc' = "done"
    /\ UNCHANGED <<conf, now, args, caller_data, caller_files, locals, sent,
                   log, sign_inputs, sign_outputs, caught>>

\* ------------------------------------------------------- specification

\* The call is over: the caller has its value or its exception, and nothing
\* of the call is kept.
call_ends ==
    /\ pc = "done"
    /\ pc' = "idle"
    /\ args' = NoCall
    /\ caller_data' = None
    /\ caller_files' = None
    /\ locals' = NoLocals
    /\ sent' = <<>>
    /\ response' = None
    /\ log' = <<>>
    /\ outcome' = Pending
    /\ caught' = None
    /\ UNCHANGED <<conf, now, sign_inputs, sign_outputs>>

\* Time passes between calls (a call reads the clock once).
tick ==
    /\ pc = "idle"
    /\ now < MaxClock
    /\ now' = now + 1
    /\ UNCHANGED <<conf, pc, args, caller_data, caller_files, locals, sent,
                   response, log, outcome, sign_inputs, sign_outputs, caught>>

Init ==
    /\ conf \in Confs
    /\ now = 0
    /\ pc = "idle"
    /\ args = NoCall
    /\ caller_data = None
    /\ caller_files = None
    /\ locals = NoLocals
    /\ sent = <<>>
    /\ response = None
    /\ log = <<>>
    /\ outcome = Pending
    /\ caught = None
    /\ sign_inputs = <<>>
    /\ sign_outputs = <<>>

Next ==
    \/ \E verb \in Verbs, path \in Paths, data \in RestData :
          rest_request_call(verb, path, data)
    \/ \E msg \in TransportErrors : rest_transport_error(msg)
    \/ \E resp \in Responses : rest_receive(resp)
    \/ rest_status
    \/ \E verb \in Verbs, path \in Paths, data \in UploadData, files \in UploadFiles :
          uploading_request_call(verb, path, data, files)
    \/ \E msg \in TransportErrors : upload_transport_error(msg)
    \/ \E resp \in UploadResponses : upload_receive(resp)
    \/ call_ends
    \/ tick

Spec == Init /\ [][Next]_vars

\* ------------------------------------------- signing, two requests at once

DefaultApiBase == <<"https", ":", "/", "/", "api", "/">>

SignPaths == {<<"files", "/">>,
              <<".", "/", "files", "/">>,
              <<"files", "/", "?", "limit=10">>,
              <<"files", "/", "?">>}
SignRequests == [verb : Verbs, path : SignPaths, data : RestData,
                 secret : Secrets, t : 0..MaxClock]

\* What rest_request makes of request r when conf.secret is r.secret and the
\* clock stands at r.t.
signed(r) == rest_prepare(r.verb, r.path, r.data, [conf EXCEPT !.secret = r.secret], r.t)

\* Two requests are given.
sign_draw(a, b) ==
    /\ sign_inputs = <<>>
    /\ sign_inputs' = <<a, b>>
    /\ UNCHANGED <<conf, now, pc, args, caller_data, caller_files, locals, sent,
                   response, log, outcome, caught, sign_outputs>>

\* Both requests go through the signing of rest_request.
sign_both ==
    /\ sign_outputs = <<>>
    /\ sign_inputs # <<>>
    /\ sign_outputs' = <<signed(sign_inputs[1]), signed(sign_inputs[2])>>
    /\ UNCHANGED <<conf, now, pc, args, caller_data, caller_files, locals, sent,
                   response, log, outcome, caught, sign_inputs>>

InitSign ==
    /\ conf \in {c \in Confs : c.api_base = DefaultApiBase /\ c.secret = None}
    /\ now = 0
    /\ pc = "idle"
    /\ args = NoCall
    /\ caller_data = None
    /\ caller_files = None
    /\ locals = NoLocals
    /\ sent = <<>>
    /\ response = None
    /\ log = <<>>
    /\ outcome = Pending
    /\ caught = None
    /\ sign_inputs = <<>>
    /\ sign_outputs = <<>>

NextSign ==
    \/ /\ sign_inputs = <<>>
       /\ \E a \in SignRequests, b \in SignRequests : sign_draw(a, b)
    \/ sign_both

SpecSign == InitSign /\ [][NextSign]_vars


\* ------------------------------------------------------------ claims

\* A call of fn has had its response.
Answered(fn) == args.fn = fn /\ response # None

\* A call of fn is over and has had its response.
AnsweredDone(fn) == Answered(fn) /\ pc = "done"

\* C1: once rest_request has a response whose status is neither 200 nor 204,
\* the call ends with one error, chosen by the status alone: 403 gives
\* AuthenticationError, 400 and 404 give InvalidRequestError, everything else
\* gives APIError; and the error carries the response body as received.
C1_RestErrorStatuses ==
    (AnsweredDone("rest_request") /\ response.status_code \notin {200, 204}) =>
        /\ outcome.kind = "raise"
        /\ outcome.arg = response.content
        /\ outcome.exc =
              (IF response.status_code = 403 THEN "AuthenticationError"
               ELSE IF response.status_code \in {400, 404} THEN "InvalidRequestError"
               ELSE "APIError")

C1_Witness ==
    /\ AnsweredDone("rest_request")
    /\ response.status_code = 403
    /\ response.content = "<html>"
    /\ outcome.kind = "raise"
    /\ outcome.exc = "AuthenticationError"
    /\ outcome.arg = "<html>"

\* C2: rest_request with status 200 returns the parsed body when the body
\* parses ({"uuid": "abc"} comes back as the mapping uuid -> abc) and raises
\* APIError with the parser's message when it does not; with status 204 it
\* returns None and raises nothing, whatever the body.
C2_RestSuccessStatuses ==
    AnsweredDone("rest_request") =>
        /\ (response.status_code = 200 /\ response.content = "{\"uuid\": \"abc\"}") =>
              outcome = Return(Dict(<<<<"uuid", "abc">>>>))
        /\ (response.status_code = 200 /\ response.content = "null") =>
              outcome = Return(None)
        /\ (response.status_code = 200 /\ response.content \in {"", "<html>"}) =>
              /\ outcome.kind = "raise"
              /\ outcome.exc = "APIError"
              /\ outcome.arg = "Expecting value: line 1 column 1 (char 0)"
        /\ response.status_code = 204 => outcome = Return(None)

C2_Witness ==
    /\ AnsweredDone("rest_request")
    /\ response.status_code = 204
    /\ response.content = "<html>"
    /\ outcome = Return(None)

\* C3: a call of either function whose path begins with "/" is rejected
\* before anything else happens: no request is made, nothing is logged, and
\* the caller's data is as it was passed.
C3_LeadingSlashRejected ==
    (args.fn # "none" /\ args.path # <<>> /\ args.path[1] = "/") =>
        /\ pc = "done"
        /\ outcome.kind = "raise"
        /\ outcome.exc = "AssertionError"
        /\ sent = <<>>
        /\ log = <<>>
        /\ response = None
        /\ caller_data = args.data
        /\ caller_files = args.files

C3_Witness ==
    /\ args.fn = "uploading_request"
    /\ args.path = <<"/", "files", "/">>
    /\ args.data = Dict(<<<<"k1", "v">>>>)
    /\ caller_data = Dict(<<<<"k1", "v">>>>)
    /\ sent = <<>>
    /\ outcome.kind = "raise"

\* C4: when requests.request raises a RequestException, either function
\* raises APIConnectionError with the exception's first argument and ends:
\* there is no response, and no record of a response or of a warning is
\* logged.
C4_TransportFailure ==
    caught # None =>
        /\ pc = "done"
        /\ outcome.kind = "raise"
        /\ outcome.exc = "APIConnectionError"
        /\ outcome.arg = caught.args[1]
        /\ response = None
        /\ \A i \in 1..Len(log) : log[i].kind \notin {"got", "warning"}

C4_Witness ==
    /\ caught = [args |-> <<"Connection refused">>]
    /\ args.fn = "rest_request"
    /\ outcome.kind = "raise"
    /\ outcome.arg = "Connection refused"
    /\ Len(log) = 1

\* C6: for a call of uploading_request with a valid path, the form sent holds
\* the public key under pub_key and under UPLOADCARE_PUB_KEY; the caller's
\* data has those two keys set and is otherwise as passed (same other keys,
\* same values), and the caller's files are as passed.
C6_UploadFormAndFrame ==
    (args.fn = "uploading_request" /\ sent # <<>>) =>
        LET form == sent[1].data.items
            passed == IF args.data = None THEN <<>> ELSE args.data.items
            both == {"pub_key", "UPLOADCARE_PUB_KEY"}
        IN  /\ Len(sent) = 1
            /\ both \subseteq keys(form)
            /\ \A k \in both : get_item(form, k) = conf.pub_key
            /\ keys(form) = keys(passed) \cup both
            /\ \A k \in keys(passed) \ both : get_item(form, k) = get_item(passed, k)
            /\ sent[1].files = args.files
            /\ caller_files = args.files
            /\ IF args.data = None THEN caller_data = None
               ELSE /\ caller_data.t = "dict"
                    /\ keys(caller_data.items) = keys(passed) \cup both
                    /\ \A k \in keys(passed) \ both :
                          get_item(caller_data.items, k) = get_item(passed, k)
                    /\ \A k \in both : get_item(caller_data.items, k) = conf.pub_key

C6_Witness ==
    /\ args.fn = "uploading_request"
    /\ pc = "done"
    /\ args.data = Dict(<<<<"pub_key", "old">>, <<"k1", "v">>>>)
    /\ args.files = Dict(<<<<"file", "photo.jpg">>>>)
    /\ caller_data = Dict(<<<<"pub_key", "demopublickey">>, <<"k1", "v">>,
                           <<"UPLOADCARE_PUB_KEY", "demopublickey">>>>)
    /\ caller_files = args.files

UploadStatusMapping ==
    /\ response.status_code = 200 =>
          /\ response.content = "{\"uuid\": \"abc\"}" =>
                outcome = Return(Dict(<<<<"uuid", "abc">>>>))
          /\ response.content \in {"", "<html>"} =>
                (outcome.kind = "raise" /\ outcome.exc = "APIError")
          /\ response.content = "null" => outcome.kind = "return"
    /\ response.status_code \in {400, 404} =>
          /\ outcome.kind = "raise"
          /\ outcome.exc = "InvalidRequestError"
          /\ outcome.arg = response.content
    /\ response.status_code \notin {200, 400, 404} =>
          /\ outcome.kind = "raise"
          /\ outcome.exc = "APIError"
          /\ outcome.arg = response.content
    /\ outcome.kind = "raise" => outcome.exc # "AuthenticationError"

\* C5, as claimed: uploading_request with a response returns the parsed body
\* for 200 (APIError when it does not parse), raises InvalidRequestError for
\* 400 and 404 and APIError for every other status, 204 and 403 included; it
\* never raises AuthenticationError and never returns no value.
C5_AsClaimed ==
    AnsweredDone("uploading_request") =>
        /\ UploadStatusMapping
        /\ outcome # Return(None)

\* C5, amended: the same, but the call does return no value (None) in one
\* case, status 200 with a body that parses to JSON null, and in no other.
C5_UploadStatuses ==
    AnsweredDone("uploading_request") =>
        /\ UploadStatusMapping
        /\ outcome = Return(None) <=>
              (response.status_code = 200 /\ response.content = "null")

C5_Witness ==
    /\ AnsweredDone("uploading_request")
    /\ response.status_code = 403
    /\ outcome.kind = "raise"
    /\ outcome.exc = "APIError"
    /\ outcome.arg = response.content

\* The tokens of a warning header between its first and its last double
\* quote: empty when it has fewer than two, or nothing between them.
Quoted(value) ==
    LET qs == {i \in 1..Len(value) : value[i] = Q}
    IN  IF Cardinality(qs) < 2 THEN <<>>
        ELSE LET first == CHOOSE i \in qs : \A j \in qs : i <= j
                 last == CHOOSE i \in qs : \A j \in qs : j <= i
             IN  SubSeq(value, first + 1, last - 1)

\* The number of pieces of text that the separator sep (one or two tokens)
\* cuts text into; none for the empty text.
Pieces(text, sep) ==
    IF text = <<>> THEN 0
    ELSE 1 + Cardinality({i \in 1..(Len(text) - Len(sep) + 1) :
                             SubSeq(text, i, i + Len(sep) - 1) = sep})

\* The records of the log from the third on are the warnings of the
\* response, one for each piece that sep cuts the quoted text into, after
\* the record of the request and the record of the response.
WarningsLogged(sep) ==
    LET quoted == IF "warning" \in DOMAIN response.headers
                  THEN Quoted(response.headers.warning) ELSE <<>>
    IN  /\ Len(log) = 2 + Pieces(quoted, sep)
        /\ log[1].level = "DEBUG" /\ log[1].kind = "sent"
        /\ log[2].level = "DEBUG" /\ log[2].kind = "got"
        /\ log[2].status_code = response.status_code
        /\ \A i \in 3..Len(log) : log[i].level = "WARNING"

\* C9, as claimed: the quoted part of the warning header is a list separated
\* by semicolons, and rest_request logs one warning for each of its segments,
\* after the record of the response and before the status is interpreted,
\* whatever the status; no warning header or no quoted part, no warning.
C9_AsClaimed ==
    (Answered("rest_request") /\ pc \in {"rest_status", "done"}) =>
        WarningsLogged(<<";">>)

\* C9, amended: the segments are what "; " (a semicolon and a space)
\* separates in the text between the first and the last double quote of the
\* header; the rest as claimed.
C9_WarningsLogged ==
    (Answered("rest_request") /\ pc \in {"rest_status", "done"}) =>
        /\ WarningsLogged(<<";", " ">>)
        /\ pc = "rest_status" => outcome = Pending
        /\ LET texts == [i \in 1..(Len(log) - 2) |-> Tail(log[i + 2].text)]
           IN  Len(log) > 2 =>
                  join(<<";", " ">>, texts) = Quoted(response.headers.warning)

C9_Witness ==
    /\ AnsweredDone("rest_request")
    /\ response.status_code = 403
    /\ response.headers = [warning |-> <<Q, "w1", ";", " ", "w2", Q>>]
    /\ outcome.kind = "raise"
    /\ Len(log) = 4
    /\ log[3].text = <<"API Warning: ", "w1">>
    /\ log[4].text = <<"API Warning: ", "w2">>

\* The scheme, "://" and the host of conf.api_base.
Origin == Take(conf.api_base, 5)

\* The last line of the signed string.
SignedPathLine ==
    Drop(locals.sign_string, RFind(locals.sign_string, "\n", Len(locals.sign_string)))

\* C10: for a valid relative path (no leading "/", no scheme), the path that
\* rest_request signs is the request target of the URL it sends the request
\* to: the URL is the origin of conf.api_base followed by the signed path
\* (and by the fragment, which is not sent), the signed path starts at the
\* root, holds neither scheme nor host, and ends with "?" and the query when
\* the path given has a non-empty query.
C10_SignedPathIsRequestTarget ==
    (args.fn = "rest_request" /\ sent # <<>> /\ Find(args.path, ":", 1) = 0) =>
        LET url == sent[1].url
            h == Find(args.path, "#", 1)
            nofrag == IF h > 0 THEN Take(args.path, h - 1) ELSE args.path
            frag == IF h > 0 THEN Drop(args.path, h - 1) ELSE <<>>
            frag1 == IF Len(frag) = 1 THEN <<>> ELSE frag
            q == Find(nofrag, "?", 1)
            query == IF q > 0 THEN Drop(nofrag, q) ELSE <<>>
        IN  /\ SignedPathLine = locals.path
            /\ url = Origin \o locals.path \o frag1
            /\ locals.path[1] = "/"
            /\ ~startswith(locals.path, <<"/", "/">>)
            /\ \A i \in 1..Len(locals.path) : locals.path[i] \notin {":", "https", "api"}
            /\ IF query # <<>>
               THEN /\ Len(locals.path) > Len(query) + 1
                    /\ Drop(locals.path, Len(locals.path) - Len(query) - 1)
                          = <<"?">> \o query
               ELSE Find(locals.path, "?", 1) = 0

C10_Witness ==
    /\ args.fn = "rest_request"
    /\ conf.api_base = <<"https", ":", "/", "/", "api", "/", "v1", "/">>
    /\ args.path = <<"files", "/", "?", "limit=10">>
    /\ locals.path = <<"/", "v1", "/", "files", "/", "?", "limit=10">>
    /\ sent[1].url = <<"https", ":", "/", "/", "api", "/", "v1", "/", "files", "/",
                       "?", "limit=10">>


\* A secret as the key HMAC works with: unset is the empty key, and the zero
\* bytes a short key ends with are the padding HMAC adds anyway.
HmacKey(secret) ==
    IF secret = None THEN <<>>
    ELSE LET nz == {i \in 1..Len(secret.s) : secret.s[i] # "NUL"}
         IN  IF nz = {} THEN <<>>
             ELSE SubSeq(secret.s, 1, CHOOSE i \in nz : \A j \in nz : j <= i)

\* The two requests differ in field f and in nothing else that is given to
\* rest_request or configured.
DifferOnlyIn(a, b, f) ==
    /\ a[f] # b[f]
    /\ \A g \in {"verb", "path", "data", "secret"} \ {f} : a[g] = b[g]

\* C7, as claimed: signing the same verb, path and body (under the same
\* secret) twice gives the same signature, and a change of any one of verb,
\* path, body or secret changes the signature.
C7_AsClaimed ==
    sign_outputs # <<>> =>
        LET a == sign_inputs[1]
            b == sign_inputs[2]
            sa == sign_outputs[1].sign
            sb == sign_outputs[2].sign
        IN  /\ (a.verb = b.verb /\ a.path = b.path /\ a.data = b.data
                /\ a.secret = b.secret) => sa = sb
            /\ \A f \in {"verb", "path", "data", "secret"} :
                  (DifferOnlyIn(a, b, f) /\ a.t = b.t) => sa # sb

\* C7, amended: signing the same verb, path and body under the same secret
\* within the same second gives the same signature; and two signatures are
\* the same only if the verbs, the serialized bodies, the dates, the resolved
\* paths with their queries and the HMAC keys are (MD5 and HMAC-SHA1 taken
\* as free of collisions).  So a change of verb or body changes the
\* signature, a change of path does when it changes the request target, a
\* change of secret does when it changes the HMAC key, and so does the
\* passing of a second.
C7_SignatureDeterminedBy ==
    sign_outputs # <<>> =>
        LET a == sign_inputs[1]
            b == sign_inputs[2]
            sa == sign_outputs[1].sign
            sb == sign_outputs[2].sign
        IN  /\ (a.verb = b.verb /\ a.path = b.path /\ a.data = b.data
                /\ a.secret = b.secret /\ a.t \div 2 = b.t \div 2) => sa = sb
            /\ sa = sb =>
                  /\ a.verb = b.verb
                  /\ a.data = b.data
                  /\ a.t \div 2 = b.t \div 2
                  /\ sign_outputs[1].path = sign_outputs[2].path
                  /\ HmacKey(a.secret) = HmacKey(b.secret)
            /\ (a.path = <<"files", "/">> /\ b.path = <<"files", "/", "?", "limit=10">>)
                  => sa # sb
            /\ (a.secret = None /\ b.secret = Str(<<"k">>)) => sa # sb

C7_Witness ==
    /\ sign_outputs # <<>>
    /\ DifferOnlyIn(sign_inputs[1], sign_inputs[2], "verb")
    /\ sign_inputs[1].t = sign_inputs[2].t
    /\ sign_outputs[1].sign # sign_outputs[2].sign

====
